---- MODULE Spec2Model ----
(***************************************************************************)
(* importcjj/rolling: a time-rotating log file appender.                   *)
(*                                                                         *)
(* rotation.go  the rotation policy (NextDate, roundDate)                  *)
(* rolling.go   the appender (New, Write, refreshFile) and its state       *)
(*              (newState, shouldRollover, AdvanceDate, prune_old_logs,    *)
(*              createFile, joinDate)                                      *)
(*                                                                         *)
(* Instants are Unix seconds.  Callers of Write are processes; each step   *)
(* of a call that touches shared state (the clock, state.nextDate, the     *)
(* directory, RollingFileAppender.mu, RollingFileAppender.file) is one     *)
(* action.                                                                 *)
(***************************************************************************)
EXTENDS Integers, Sequences, FiniteSets, TLC

(***************************************************************************)
(* Bounds of the model.                                                    *)
(***************************************************************************)
\* number of concurrent callers of Write
NumCallers == 2
\* files the appender opens over a run, the one New opens included
MaxOpens == 3
\* times the clock is set back
MaxBack == 1
\* clock readings: Start, Start + ClockStep, ..., Start + MaxTick * ClockStep
MaxTick == 2
\* largest Config.MaxFiles tried
MaxRetention == 2
\* longest byte sequence passed to Write
MaxLen == 1
\* entries of the directories PruneOldLogs is tried on alone
MaxEntries == 3
\* times.Stat calls that fail in one run of prune_old_logs
MaxFaults == 1
\* quarters of an hour before and after the zone change at which New is tried
MaxQuarters == 6

(***************************************************************************)
(* Program constants.                                                      *)
(***************************************************************************)
\* time.Minute, time.Hour, and the day AddDate(0, 0, 1) adds, in seconds
Minute == 60
Hour == 3600
Day == 86400
\* the rotation kinds: Never, Minutely, Hourly, Daily
Never == 0
Minutely == 1
Hourly == 2
Daily == 3

Kinds == {Never, Minutely, Hourly, Daily}
Procs == 1..NumCallers

VARIABLES
    \* Config / state (immutable after newState)
    rotation, maxFiles, logFilenamePrefix, logFilenameSuffix, timeLocation,
    \* state.nextDate, the boundary register
    nextDate,
    \* RollingFileAppender.file (an index into handles), RollingFileAppender.mu
    file, mu,
    \* every *os.File the appender opened: [ino, open]
    handles,
    \* the log directory: a set of entries, and the next inode number
    dir, nextIno,
    \* the wall clock (Unix seconds) and how many steps it may still move
    clock,
    \* per caller: position in Write, and the locals of the call
    pc, now, current, won, victims, newFile,
    \* per caller: what the file write of the call returned, and what the call
    \* returns
    under, ret,
    \* how often the clock was set back
    backs,
    \* when prune_old_logs is run on its own: the directory it started on and
    \* whether a call it made to the file system failed
    trial

vars == <<rotation, maxFiles, logFilenamePrefix, logFilenameSuffix, timeLocation,
          nextDate, file, mu, handles, dir, nextIno, clock,
          pc, now, current, won, victims, newFile, under, ret, backs, trial>>

config == <<rotation, maxFiles, logFilenamePrefix, logFilenameSuffix, timeLocation>>

(***************************************************************************)
(* Time.  A *time.Location is [before, after, at, first]: the zone offset  *)
(* (seconds east of UTC) in effect before and from the instant `at`, and   *)
(* whether time.Date resolves a wall-clock reading that occurs twice to    *)
(* its first occurrence.  time.Date documents that such a reading resolves *)
(* to one of the two zones without saying which, so both are locations.    *)
(***************************************************************************)
\* the instant of the zone transition of the locations below
Transition == 10 * Day + 6 * Hour

UTC == [before |-> 0, after |-> 0, at |-> 0, first |-> TRUE]
\* clocks go back one hour at Transition, west of Greenwich
West == [before |-> 0 - 4 * Hour, after |-> 0 - 5 * Hour, at |-> Transition, first |-> TRUE]
\* clocks go back one hour at Transition, east of Greenwich
East == [before |-> 2 * Hour, after |-> Hour, at |-> Transition, first |-> FALSE]

\* clocks go forward one hour at Transition, west of Greenwich; a reading in
\* the skipped hour resolves to the instant an hour before it on the clock
Spring == [before |-> 0 - 5 * Hour, after |-> 0 - 4 * Hour, at |-> Transition, first |-> TRUE]

Locations == {UTC, West, East, Spring}

ZoneOffset(l, u) == IF u < l.at THEN l.before ELSE l.after

\* t.In(l): the wall-clock reading of instant u, as seconds
Wall(l, u) == u + ZoneOffset(l, u)

SetMin(S) == CHOOSE x \in S : \A y \in S : x <= y
SetMax(S) == CHOOSE x \in S : \A y \in S : y <= x

\* time.Date(<fields of wall-clock reading w>, l).Unix()
DateIn(l, w) ==
    LET both == {w - l.before, w - l.after}
        valid == {u \in both : Wall(l, u) = w}
        cands == IF valid = {} THEN both ELSE valid
    IN  IF l.first THEN SetMin(cands) ELSE SetMax(cands)

Floor(w, unit) == w - (w % unit)

\* a roundDate that takes Daily down to midnight
roundDateToMidnight(kind, date, l) ==
    CASE kind = Minutely -> DateIn(l, Floor(Wall(l, date), Minute))
      [] kind = Hourly   -> DateIn(l, Floor(Wall(l, date), Hour))
      [] kind = Daily    -> DateIn(l, Floor(Wall(l, date), Day))

\* rotation.roundDate, on the instant `date`
roundDate(kind, date, l) ==
    CASE kind = Minutely -> DateIn(l, Floor(Wall(l, date), Minute))
      [] kind = Hourly   -> DateIn(l, Floor(Wall(l, date), Hour))
      [] kind = Daily    -> DateIn(l, Floor(Wall(l, date), Hour))

\* a NextDate under which Never rotates every minute
NextDateNeverByMinute(kind, t, l) ==
    CASE kind = Hourly -> {roundDate(kind, t + Hour, l)}
      [] kind = Daily  -> {roundDate(kind, DateIn(l, Wall(l, t) + Day), l)}
      [] OTHER         -> {roundDate(Minutely, t + Minute, l)}

\* rotation.NextDate: the set holding the instant returned, empty for nil
NextDate(kind, t, l) ==
    CASE kind = Minutely -> {roundDate(kind, t + Minute, l)}
      [] kind = Hourly   -> {roundDate(kind, t + Hour, l)}
      [] kind = Daily    -> {roundDate(kind, DateIn(l, Wall(l, t) + Day), l)}
      [] OTHER           -> {}

\* the clock moves in steps of three quarters of a rotation period (and half
\* an hour more for Daily, so that readings are not all on the hour)
ClockStep(kind) ==
    CASE kind = Hourly -> 3 * (Hour \div 4)
      [] kind = Daily  -> 3 * (Day \div 4) + Hour \div 2
      [] OTHER         -> 3 * (Minute \div 4)

\* the first clock reading: three steps before the zone transition
Start(kind) == Transition - 3 * ClockStep(kind)

Instants(kind) == {Start(kind) + k * ClockStep(kind) : k \in 0..MaxTick}

(***************************************************************************)
(* File names.  A string is a sequence of tokens; the formatted date is    *)
(* one token.                                                              *)
(***************************************************************************)
\* date.Format(s.dateFormat) with the default format "20060102_15:04:05":
\* the wall-clock reading to the second, without the zone
Format(l, date) == <<ToString(Wall(l, date))>>

\* a joinDate that puts the date in the name for every kind
joinDateOfEveryKind(kind, pre, suf, l, date) ==
    pre \o Format(l, date) \o suf

\* state.joinDate
joinDate(kind, pre, suf, l, date) ==
    LET dateStr == Format(l, date)
    IN  IF kind = Never
        THEN IF Len(pre) > 0 /\ Len(suf) > 0 THEN pre \o suf
             ELSE IF Len(pre) > 0 THEN pre
             ELSE IF Len(suf) > 0 THEN suf
             ELSE dateStr
        ELSE IF Len(pre) > 0 /\ Len(suf) > 0 THEN pre \o dateStr \o suf
             ELSE IF Len(pre) > 0 THEN pre \o dateStr
             ELSE IF Len(suf) > 0 THEN dateStr \o suf
             ELSE dateStr

\* strings.HasPrefix, strings.HasSuffix
HasPrefix(str, pre) == Len(str) >= Len(pre) /\ SubSeq(str, 1, Len(pre)) = pre
HasSuffix(str, suf) ==
    Len(str) >= Len(suf) /\ SubSeq(str, Len(str) - Len(suf) + 1, Len(str)) = suf

(***************************************************************************)
(* The directory: a set of entries [name, ino, ctime, isDir, hasBirth].    *)
(* ino tells a file from a later file of the same name; ctime is the birth *)
(* time times.Stat reports, hasBirth whether it reports one.               *)
(***************************************************************************)
Names(d) == {e.name : e \in d}

\* a filter that does not look at the prefix
CandidatesOfAnyPrefix(d, pre, suf) ==
    {e \in d : /\ ~e.isDir
               /\ (Len(suf) > 0 => HasSuffix(e.name, suf))}

\* prune_old_logs, lines 163-176: the entries it goes on to stat
Candidates(d, pre, suf) ==
    {e \in d : /\ ~e.isDir
               /\ (Len(pre) > 0 => HasPrefix(e.name, pre))
               /\ (Len(suf) > 0 => HasSuffix(e.name, suf))}

\* prune_old_logs, lines 177-189: the LogEntry list `files`, given the entries
\* whose times.Stat failed
LogEntries(d, pre, suf, statFailed) ==
    {e \in Candidates(d, pre, suf) \ statFailed : e.hasBirth}

\* sort.Slice by Ctime.Before: every order of S it may leave (ties in any order)
Sorted(S) ==
    {s \in [1..Cardinality(S) -> S] :
        /\ \A i, j \in 1..Cardinality(S) : i # j => s[i] # s[j]
        /\ \A i, j \in 1..Cardinality(S) : i < j => ~(s[j].ctime < s[i].ctime)}

\* a removal loop that stops one entry earlier, at len(files)-maxFiles
ToRemoveLeavingMax(files, max) ==
    IF Len(files) < max THEN <<>>
    ELSE [i \in 1..(Len(files) - max) |-> files[i].name]

\* prune_old_logs, lines 191-204: the paths it calls os.Remove on, in order,
\* for the sorted list `files`
ToRemove(files, max) ==
    IF Len(files) < max THEN <<>>
    ELSE [i \in 1..(Len(files) - max + 1) |-> files[i].name]

Range(s) == {s[i] : i \in 1..Len(s)}

\* os.Remove of every path of `paths` but those of `failed`
RemoveAll(d, paths, failed) == {e \in d : e.name \notin (paths \ failed)}

\* os.OpenFile(name, O_APPEND|O_CREATE|O_WRONLY): the directory afterwards
OpenCreate(d, name, ino, t) ==
    IF name \in Names(d) THEN d
    ELSE d \cup {[name |-> name, ino |-> ino, ctime |-> t,
                  isDir |-> FALSE, hasBirth |-> TRUE]}

\* the inode the handle os.OpenFile returns refers to
InoOf(d, name) == (CHOOSE e \in d : e.name = name).ino

\* os.OpenFile cannot open a directory for writing
CanOpen(d, name) == \A e \in d : e.name = name => ~e.isDir

(***************************************************************************)
(* Construction: New and newState.                                         *)
(***************************************************************************)
\* the prefix / suffix pairs the appender is run with
Affixes == {<< <<"app_">>, <<".log">> >>}

\* newState, lines 135-137: the initial value of state.nextDate
InitialNextDate(kind, t, l) ==
    IF NextDate(kind, t, l) = {} THEN 0 ELSE CHOOSE d \in NextDate(kind, t, l) : TRUE

\* no file write yet, nothing returned yet
NoWrite == [len |-> 0, n |-> 0, err |-> "none", h |-> 0]
NoResult == [n |-> 0, err |-> "none"]

\* the locals of a caller that is not inside Write
IdleLocals ==
    /\ pc = [p \in Procs |-> "idle"]
    /\ now = [p \in Procs |-> 0]
    /\ current = [p \in Procs |-> 0]
    /\ won = [p \in Procs |-> FALSE]
    /\ victims = [p \in Procs |-> <<>>]
    /\ newFile = [p \in Procs |-> 0]
    /\ under = [p \in Procs |-> NoWrite]
    /\ ret = [p \in Procs |-> NoResult]

NoTrial == [on |-> FALSE, dir0 |-> {}, failed |-> FALSE]

\* New: the state after construction at instant Start(rotation)
Init ==
    /\ rotation \in Kinds
    /\ maxFiles \in 0..MaxRetention
    /\ \E a \in Affixes : logFilenamePrefix = a[1] /\ logFilenameSuffix = a[2]
    /\ timeLocation \in Locations
    /\ clock = Start(rotation)
    /\ nextDate = InitialNextDate(rotation, clock, timeLocation)
    /\ dir = OpenCreate({}, joinDate(rotation, logFilenamePrefix, logFilenameSuffix,
                                     timeLocation, clock), 1, clock)
    /\ nextIno = 2
    /\ handles = <<[ino |-> 1, open |-> TRUE]>>
    /\ file = 1
    /\ mu = [writer |-> 0, readers |-> {}]
    /\ IdleLocals
    /\ backs = 0
    /\ trial = NoTrial

(***************************************************************************)
(* The clock.                                                              *)
(***************************************************************************)
procVars == <<pc, now, current, won, victims, newFile, under, ret, trial>>

Tick ==
    /\ clock + ClockStep(rotation) \in Instants(rotation)
    /\ clock' = clock + ClockStep(rotation)
    /\ UNCHANGED <<config, nextDate, file, mu, handles, dir, nextIno, procVars, backs>>

\* the system clock is set back
ClockBack ==
    /\ backs < MaxBack
    /\ clock - ClockStep(rotation) \in Instants(rotation)
    /\ clock' = clock - ClockStep(rotation)
    /\ backs' = backs + 1
    /\ UNCHANGED <<config, nextDate, file, mu, handles, dir, nextIno, procVars>>

(***************************************************************************)
(* Write, lines 75-81: the rotation check.  The byte sequence p is not     *)
(* looked at before line 86, where the model draws its length.             *)
(***************************************************************************)
\* the callers that may still open a file in their call
Pending == {q \in Procs : pc[q] \in {"should", "advance", "prune", "remove", "create"}}

\* a caller enters Write and reads the clock, line 76
Call(p) ==
    /\ pc[p] = "idle"
    /\ Len(handles) + Cardinality(Pending) < MaxOpens
    /\ now' = [now EXCEPT ![p] = clock]
    /\ pc' = [pc EXCEPT ![p] = "should"]
    /\ UNCHANGED <<config, nextDate, file, mu, handles, dir, nextIno, clock, backs,
                   current, won, victims, newFile, under, ret, trial>>

\* a shouldRollover that returns the instant asked about, not the boundary
shouldRolloverReturningDate(nd, date) == IF nd # 0 /\ date >= nd THEN date ELSE 0

\* a shouldRollover that does not compare the instant with the boundary
shouldRolloverAnyInstant(nd, date) == nd

\* state.shouldRollover: the boundary returned, 0 for nil
shouldRollover(nd, date) == IF nd # 0 /\ date >= nd THEN nd ELSE 0

\* line 77
ShouldRollover(p) ==
    /\ pc[p] = "should"
    /\ current' = [current EXCEPT ![p] = shouldRollover(nextDate, now[p])]
    /\ pc' = [pc EXCEPT ![p] = IF current'[p] # 0 THEN "advance" ELSE "rlock"]
    /\ UNCHANGED <<config, nextDate, file, mu, handles, dir, nextIno, clock, backs,
                   now, won, victims, newFile, under, ret, trial>>

\* atomic.CompareAndSwapInt64(&s.nextDate, old, new): whether it swaps
CasSucceeds(reg, old) == reg = old

\* state.AdvanceDate, line 78, and the branch on its result
AdvanceDate(p) ==
    /\ pc[p] = "advance"
    /\ \E next \in NextDate(rotation, now[p], timeLocation) :
          IF CasSucceeds(nextDate, current[p])
          THEN /\ nextDate' = next
               /\ won' = [won EXCEPT ![p] = TRUE]
               /\ pc' = [pc EXCEPT ![p] = IF maxFiles > 0 THEN "prune" ELSE "create"]
          ELSE /\ pc' = [pc EXCEPT ![p] = "rlock"]
               /\ UNCHANGED <<nextDate, won>>
    /\ UNCHANGED <<config, file, mu, handles, dir, nextIno, clock, backs,
                   now, current, victims, newFile, under, ret, trial>>

(***************************************************************************)
(* refreshFile, lines 52-73, run by the caller whose AdvanceDate succeeded. *)
(* What it prints to os.Stderr is not part of the state.                   *)
(***************************************************************************)
\* a call to the file system failed during a run of prune_old_logs
Failed(t) == IF t.on THEN [t EXCEPT !.failed = TRUE] ELSE t

\* prune_old_logs, lines 146-197: the test of maxFiles, os.ReadDir (which may
\* fail), the filter, times.Stat (which may fail), the retention test and
\* the sort
PruneRead(p) ==
    /\ pc[p] = "prune"
    /\ IF maxFiles = 0
       THEN /\ victims' = [victims EXCEPT ![p] = <<>>]
            /\ UNCHANGED trial
       ELSE \/ /\ victims' = [victims EXCEPT ![p] = <<>>]
               /\ trial' = Failed(trial)
            \/ \E statFailed \in SUBSET Candidates(dir, logFilenamePrefix,
                                                   logFilenameSuffix) :
                  /\ Cardinality(statFailed) <= MaxFaults
                  /\ \E files \in Sorted(LogEntries(dir, logFilenamePrefix,
                                                    logFilenameSuffix, statFailed)) :
                        victims' = [victims EXCEPT ![p] = ToRemove(files, maxFiles)]
                  /\ trial' = IF statFailed = {} THEN trial ELSE Failed(trial)
    /\ pc' = [pc EXCEPT ![p] = IF victims'[p] = <<>> THEN "create" ELSE "remove"]
    /\ UNCHANGED <<config, nextDate, file, mu, handles, dir, nextIno, clock, backs,
                   now, current, won, newFile, under, ret>>

\* prune_old_logs, lines 199-204: one turn of the loop; os.Remove may fail,
\* and fails when the path is gone
PruneRemove(p) ==
    /\ pc[p] = "remove"
    /\ \/ /\ Head(victims[p]) \in Names(dir)
          /\ dir' = RemoveAll(dir, {Head(victims[p])}, {})
          /\ UNCHANGED trial
       \/ /\ dir' = RemoveAll(dir, {Head(victims[p])}, {Head(victims[p])})
          /\ trial' = Failed(trial)
    /\ victims' = [victims EXCEPT ![p] = Tail(@)]
    /\ pc' = [pc EXCEPT ![p] = IF victims'[p] = <<>> THEN "create" ELSE "remove"]
    /\ UNCHANGED <<config, nextDate, file, mu, handles, nextIno, clock, backs,
                   now, current, won, newFile, under, ret>>

\* a createFile step whose failure closes the installed handle
CreateFileClosingOnFailure(p) ==
    LET name == joinDate(rotation, logFilenamePrefix, logFilenameSuffix,
                         timeLocation, now[p])
    IN  /\ pc[p] = "create"
        /\ \/ /\ CanOpen(dir, name)
              /\ dir' = OpenCreate(dir, name, nextIno, clock)
              /\ nextIno' = IF name \in Names(dir) THEN nextIno ELSE nextIno + 1
              /\ handles' = Append(handles, [ino |-> InoOf(dir', name), open |-> TRUE])
              /\ newFile' = [newFile EXCEPT ![p] = Len(handles')]
              /\ pc' = [pc EXCEPT ![p] = "lock"]
           \/ /\ pc' = [pc EXCEPT ![p] = "rlock"]
              /\ handles' = [handles EXCEPT ![file] = [ino |-> 0, open |-> FALSE]]
              /\ UNCHANGED <<dir, nextIno, newFile>>
        /\ UNCHANGED <<config, nextDate, file, mu, clock, backs,
                       now, current, won, victims, under, ret, trial>>

\* state.createFile(now), lines 57-61; os.OpenFile may fail
CreateFile(p) ==
    LET name == joinDate(rotation, logFilenamePrefix, logFilenameSuffix,
                         timeLocation, now[p])
    IN  /\ pc[p] = "create"
        /\ \/ /\ CanOpen(dir, name)
              /\ dir' = OpenCreate(dir, name, nextIno, clock)
              /\ nextIno' = IF name \in Names(dir) THEN nextIno ELSE nextIno + 1
              /\ handles' = Append(handles, [ino |-> InoOf(dir', name), open |-> TRUE])
              /\ newFile' = [newFile EXCEPT ![p] = Len(handles')]
              /\ pc' = [pc EXCEPT ![p] = "lock"]
           \/ /\ pc' = [pc EXCEPT ![p] = "rlock"]
              /\ UNCHANGED <<dir, nextIno, handles, newFile>>
        /\ UNCHANGED <<config, nextDate, file, mu, clock, backs,
                       now, current, won, victims, under, ret, trial>>

\* a Lock that never finds the mutex free, as when the caller asks for it
\* while holding the shared lock itself
CanLockNever(m) == FALSE

\* an RLock that does not wait for the writer
CanRLockAnyTime(m) == TRUE

\* sync.RWMutex: Lock waits for the writer and every reader to leave,
\* RLock for the writer
CanLock(m) == m.writer = 0 /\ m.readers = {}
CanRLock(m) == m.writer = 0

\* a Close that leaves the handle open
CloseFileLeavesOpen(hs, f) == hs

\* the handles after r.file.Close(), lines 66-70 (an error of Close is only
\* printed); a closed handle refers to no file
CloseFile(hs, f) ==
    IF f # 0 THEN [hs EXCEPT ![f] = [ino |-> 0, open |-> FALSE]] ELSE hs

\* r.mu.Lock() and r.file.Close(), lines 63-70
LockAndClose(p) ==
    /\ pc[p] = "lock"
    /\ CanLock(mu)
    /\ mu' = [mu EXCEPT !.writer = p]
    /\ handles' = CloseFile(handles, file)
    /\ pc' = [pc EXCEPT ![p] = "assign"]
    /\ UNCHANGED <<config, nextDate, file, dir, nextIno, clock, backs,
                   now, current, won, victims, newFile, under, ret, trial>>

\* r.file = newFile and the deferred r.mu.Unlock(), lines 64 and 72
Assign(p) ==
    /\ pc[p] = "assign"
    /\ file' = newFile[p]
    /\ mu' = [mu EXCEPT !.writer = 0]
    /\ pc' = [pc EXCEPT ![p] = "rlock"]
    /\ UNCHANGED <<config, nextDate, handles, dir, nextIno, clock, backs,
                   now, current, won, victims, newFile, under, ret, trial>>

(***************************************************************************)
(* Write, lines 83-86: the write step.                                     *)
(***************************************************************************)
\* r.mu.RLock(), line 83
RLock(p) ==
    /\ pc[p] = "rlock"
    /\ CanRLock(mu)
    /\ mu' = [mu EXCEPT !.readers = @ \cup {p}]
    /\ pc' = [pc EXCEPT ![p] = "write"]
    /\ UNCHANGED <<config, nextDate, file, handles, dir, nextIno, clock, backs,
                   now, current, won, victims, newFile, under, ret, trial>>

\* what (*os.File).Write may return for len bytes on handle number f: all of
\* them written, or fewer and an error; only an error on a closed handle
FileWrite(hs, f, len) ==
    IF ~hs[f].open THEN {[len |-> len, n |-> 0, err |-> "closed", h |-> f]}
    ELSE {[len |-> len, n |-> len, err |-> "nil", h |-> f]}
         \cup {[len |-> len, n |-> k, err |-> "io", h |-> f] : k \in 0..(len - 1)}

\* a Write that reports every file write as complete
ReturnAllWritten(w) == [n |-> w.len, err |-> "nil"]

\* `return r.file.Write(p)`: what Write returns when the file write returned w
Return(w) == [n |-> w.n, err |-> w.err]

\* r.file.Write(p) and the results Write returns, line 86
WriteFile(p) ==
    /\ pc[p] = "write"
    /\ \E len \in 0..MaxLen : \E w \in FileWrite(handles, file, len) :
          /\ under' = [under EXCEPT ![p] = w]
          /\ ret' = [ret EXCEPT ![p] = Return(w)]
    /\ pc' = [pc EXCEPT ![p] = "done"]
    /\ UNCHANGED <<config, nextDate, file, mu, handles, dir, nextIno, clock, backs,
                   now, current, won, victims, newFile, trial>>

\* the deferred r.mu.RUnlock(), line 84, and the return to the caller
Exit(p) ==
    /\ pc[p] = "done"
    /\ mu' = [mu EXCEPT !.readers = @ \ {p}]
    /\ pc' = [pc EXCEPT ![p] = "idle"]
    /\ now' = [now EXCEPT ![p] = 0]
    /\ current' = [current EXCEPT ![p] = 0]
    /\ won' = [won EXCEPT ![p] = FALSE]
    /\ newFile' = [newFile EXCEPT ![p] = 0]
    /\ under' = [under EXCEPT ![p] = NoWrite]
    /\ ret' = [ret EXCEPT ![p] = NoResult]
    /\ UNCHANGED <<config, nextDate, file, handles, dir, nextIno, clock, backs, victims, trial>>

Next ==
    \/ Tick
    \/ ClockBack
    \/ \E p \in Procs :
          \/ Call(p)
          \/ ShouldRollover(p)
          \/ AdvanceDate(p)
          \/ PruneRead(p)
          \/ PruneRemove(p)
          \/ CreateFile(p)
          \/ LockAndClose(p)
          \/ Assign(p)
          \/ RLock(p)
          \/ WriteFile(p)
          \/ Exit(p)

Spec == Init /\ [][Next]_vars

(***************************************************************************)
(* Fair scheduling.  Every step of a caller that does not wait for the     *)
(* lock is taken if it stays possible (the goroutine is scheduled, the     *)
(* file-system call returns).  A caller waiting in mu.Lock or mu.RLock     *)
(* gets the lock if it is free again and again: sync.RWMutex keeps new     *)
(* readers out while a writer waits and wakes the waiting readers when the *)
(* writer unlocks.  Checked for a Minutely appender in UTC with            *)
(* MaxFiles 1.                                                             *)
(***************************************************************************)
InitFair == Init /\ rotation = Minutely /\ timeLocation = UTC /\ maxFiles = 1

\* the steps of caller p that do not wait for the lock
Running(p) ==
    \/ ShouldRollover(p)
    \/ AdvanceDate(p)
    \/ PruneRead(p)
    \/ PruneRemove(p)
    \/ CreateFile(p)
    \/ Assign(p)
    \/ WriteFile(p)
    \/ Exit(p)

Fairness ==
    \A p \in Procs :
       /\ WF_vars(Running(p))
       /\ SF_vars(LockAndClose(p))
       /\ SF_vars(RLock(p))

SpecFair == InitFair /\ [][Next]_vars /\ Fairness

(***************************************************************************)
(* prune_old_logs on its own: one caller runs it on a directory drawn from *)
(* the entries below, under every prefix / suffix configuration.           *)
(***************************************************************************)
PruneNames == << <<"app_", "1", ".log">>, <<"app_", "2", ".log">>,
                 <<"app_", "3", ".log">>, <<"app_", "4">>, <<"5", ".log">> >>

\* what the entry of a name may be: a file born at one of the instants
\* 1..MaxEntries, a sub-directory, or a file without a birth time
EntryOptions ==
    {[isDir |-> FALSE, hasBirth |-> TRUE, ctime |-> c] : c \in 1..MaxEntries}
    \cup {[isDir |-> TRUE, hasBirth |-> TRUE, ctime |-> 0],
          [isDir |-> FALSE, hasBirth |-> FALSE, ctime |-> 0]}

PruneDirs ==
    UNION {{{[name |-> PruneNames[i], ino |-> i, ctime |-> f[i].ctime,
              isDir |-> f[i].isDir, hasBirth |-> f[i].hasBirth] : i \in S} :
              f \in [S -> EntryOptions]} :
           S \in {T \in SUBSET (1..Len(PruneNames)) : Cardinality(T) <= MaxEntries}}

InitPrune ==
    /\ rotation = Minutely
    /\ timeLocation = UTC
    /\ maxFiles \in 0..MaxRetention
    /\ logFilenamePrefix \in {<<>>, <<"app_">>}
    /\ logFilenameSuffix \in {<<>>, <<".log">>}
    /\ clock = Start(rotation) + ClockStep(rotation)
    /\ nextDate = InitialNextDate(rotation, clock, timeLocation)
    /\ dir \in PruneDirs
    /\ nextIno = Len(PruneNames) + 1
    /\ handles = <<[ino |-> 1, open |-> TRUE]>>
    /\ file = 1
    /\ mu = [writer |-> 0, readers |-> {}]
    /\ pc = [p \in Procs |-> IF p = 1 THEN "prune" ELSE "idle"]
    /\ now = [p \in Procs |-> IF p = 1 THEN clock ELSE 0]
    /\ current = [p \in Procs |->
                    IF p = 1 THEN InitialNextDate(rotation, Start(rotation), timeLocation)
                    ELSE 0]
    /\ won = [p \in Procs |-> p = 1]
    /\ victims = [p \in Procs |-> <<>>]
    /\ newFile = [p \in Procs |-> 0]
    /\ under = [p \in Procs |-> NoWrite]
    /\ ret = [p \in Procs |-> NoResult]
    /\ backs = 0
    /\ trial = [on |-> TRUE, dir0 |-> dir, failed |-> FALSE]

NextPrune == PruneRead(1) \/ PruneRemove(1)

SpecPrune == InitPrune /\ [][NextPrune]_vars

(***************************************************************************)
(* New on its own, lines 32-50, in two steps: newState, which computes the *)
(* first boundary with rotation.NextDate, and state.createFile, which      *)
(* names the first file with joinDate.  The clock reading is drawn from    *)
(* the quarters of an hour around the instant the zone changes and around  *)
(* the same instant a day earlier.                                         *)
(***************************************************************************)
NewInstants ==
    {Transition - d * Day + q * (Hour \div 4) + 15 :
        d \in 0..1, q \in (0 - MaxQuarters)..MaxQuarters}

InitNew ==
    /\ rotation \in Kinds
    /\ maxFiles = 0
    /\ logFilenamePrefix \in {<<>>, <<"app_">>}
    /\ logFilenameSuffix \in {<<>>, <<".log">>}
    /\ timeLocation \in Locations
    /\ clock \in NewInstants
    /\ nextDate = 0
    /\ dir = {}
    /\ nextIno = 1
    /\ handles = <<>>
    /\ file = 0
    /\ mu = [writer |-> 0, readers |-> {}]
    /\ pc = [p \in Procs |-> IF p = 1 THEN "newState" ELSE "idle"]
    /\ now = [p \in Procs |-> 0]
    /\ current = [p \in Procs |-> 0]
    /\ won = [p \in Procs |-> FALSE]
    /\ victims = [p \in Procs |-> <<>>]
    /\ newFile = [p \in Procs |-> 0]
    /\ under = [p \in Procs |-> NoWrite]
    /\ ret = [p \in Procs |-> NoResult]
    /\ backs = 0
    /\ trial = NoTrial

\* newState, lines 107-140, and state.getNow, line 38
NewState ==
    /\ pc[1] = "newState"
    /\ nextDate' = InitialNextDate(rotation, clock, timeLocation)
    /\ now' = [now EXCEPT ![1] = clock]
    /\ pc' = [pc EXCEPT ![1] = "newFile"]
    /\ UNCHANGED <<config, file, mu, handles, dir, nextIno, clock, backs,
                   current, won, victims, newFile, under, ret, trial>>

\* state.createFile(now) and the appender returned, lines 39-49; when
\* os.OpenFile fails New returns the error and no appender
NewCreateFile ==
    LET name == joinDate(rotation, logFilenamePrefix, logFilenameSuffix,
                         timeLocation, now[1])
    IN  /\ pc[1] = "newFile"
        /\ \/ /\ dir' = OpenCreate(dir, name, nextIno, clock)
              /\ nextIno' = nextIno + 1
              /\ handles' = <<[ino |-> InoOf(dir', name), open |-> TRUE]>>
              /\ file' = 1
              /\ pc' = [pc EXCEPT ![1] = "idle"]
           \/ /\ pc' = [pc EXCEPT ![1] = "failed"]
              /\ UNCHANGED <<dir, nextIno, handles, file>>
        /\ now' = [now EXCEPT ![1] = 0]
        /\ UNCHANGED <<config, nextDate, mu, clock, backs,
                       current, won, victims, newFile, under, ret, trial>>

NextNew == NewState \/ NewCreateFile

SpecNew == InitNew /\ [][NextNew]_vars

(***************************************************************************)
(* Properties.                                                             *)
(***************************************************************************)
\* the positions of a caller inside refreshFile
Refreshing == {"prune", "remove", "create", "lock", "assign"}

\* C1: of the callers inside Write that read the same crossed boundary from
\* state.nextDate, at most one has had its AdvanceDate succeed, and only a
\* caller whose AdvanceDate succeeded is inside refreshFile (pruning, creating
\* the file, swapping the handle).
C1_OneWinnerPerBoundary ==
    /\ \A p, q \in Procs :
          (p # q /\ won[p] /\ won[q]) => current[p] # current[q]
    /\ \A p \in Procs : pc[p] \in Refreshing => won[p]

\* C2: the write step of a Write call always targets an open handle: while a
\* caller holds the shared lock before r.file.Write the installed handle is
\* open, and no file write has found its handle closed or absent.
C2_WriteTargetsOpenHandle ==
    \A p \in Procs :
       /\ pc[p] = "write" => file \in DOMAIN handles /\ handles[file].open
       /\ pc[p] = "done" => under[p].h \in DOMAIN handles /\ under[p].err # "closed"

\* a caller has written bytes while another, its new file created, waits for
\* the exclusive lock
C2_Witness ==
    \E p, q \in Procs :
       /\ pc[p] = "done" /\ under[p].err = "nil" /\ under[p].len > 0
       /\ pc[q] = "lock" /\ handles[newFile[q]].open

\* C3: no step of any caller removes from the directory the file behind the
\* handle installed in RollingFileAppender.file.
C3_PruneSparesInstalledFile ==
    [][\A e \in dir \ dir' : e.ino # handles[file].ino]_vars

\* the handles opened by the appender and not closed
OpenHandles == {i \in DOMAIN handles : handles[i].open}

\* the new files of the rotations between createFile and the end of refreshFile
InFlight == {newFile[p] : p \in {q \in Procs : pc[q] \in {"lock", "assign"}}}

\* C4, as the spec states it: at most one handle is open in every state.
C4_AtMostOneOpenHandle == Cardinality(OpenHandles) <= 1

\* C4: the open handles are the installed one (until the rotation holding the
\* exclusive lock has closed it) and the new file of every rotation that has
\* created its file and not yet installed it; so exactly one handle is open
\* whenever no rotation is between createFile and the handle swap.
C4_OpenHandlesInstalledOrInFlight ==
    /\ OpenHandles =
          (IF \E p \in Procs : pc[p] = "assign" THEN {} ELSE {file}) \cup InFlight
    /\ Cardinality(OpenHandles) <= 1 + Cardinality(InFlight)

\* two rotations have created their files and wait to close the old handle
C4_Witness ==
    /\ Cardinality(OpenHandles) = 3
    /\ \A p \in Procs : pc[p] = "lock"

\* the directory entries a run of prune_old_logs started with that match the
\* configured prefix and suffix
Matching(d) == Candidates(d, logFilenamePrefix, logFilenameSuffix)

\* the case of C5: K matching files, all with a birth time, no two born at the
\* same instant, and 1 <= maxFiles <= K
C5_Case ==
    /\ trial.on /\ ~trial.failed
    /\ \A e \in Matching(trial.dir0) : e.hasBirth
    /\ \A e, g \in Matching(trial.dir0) : e.ctime = g.ctime => e = g
    /\ maxFiles >= 1 /\ maxFiles <= Cardinality(Matching(trial.dir0))

\* C5: in that case, when prune_old_logs has returned, exactly maxFiles - 1
\* matching files are left, and each of them was born after every deleted one.
C5_PruneLeavesNewest ==
    (C5_Case /\ pc[1] = "create") =>
       /\ Matching(dir) \subseteq Matching(trial.dir0)
       /\ Cardinality(Matching(dir)) = maxFiles - 1
       /\ \A kept \in Matching(dir) : \A gone \in Matching(trial.dir0) \ Matching(dir) :
             gone.ctime < kept.ctime
       /\ dir \ Matching(dir) = trial.dir0 \ Matching(trial.dir0)

\* three matching files and maxFiles = 2: two deleted, the newest left
C5_Witness ==
    /\ C5_Case /\ pc[1] = "create"
    /\ Cardinality(Matching(trial.dir0)) = 3 /\ maxFiles = 2
    /\ Cardinality(Matching(dir)) = 1

\* an entry prune_old_logs skips: a sub-directory, a name without the
\* non-empty prefix or suffix, or a file without a birth time
Skipped(e) ==
    \/ e.isDir
    \/ Len(logFilenamePrefix) > 0 /\ ~HasPrefix(e.name, logFilenamePrefix)
    \/ Len(logFilenameSuffix) > 0 /\ ~HasSuffix(e.name, logFilenameSuffix)
    \/ ~e.hasBirth

\* the entries of d that are not skipped
Counted(d) == {e \in d : ~Skipped(e)}

\* C6: in every state of a run of prune_old_logs, failures of the file system
\* included, every skipped entry is still there; nothing is deleted when
\* maxFiles is 0 or the entries not skipped are fewer than maxFiles; and else
\* at most (entries not skipped) - maxFiles + 1 entries are deleted, so
\* skipped entries do not count.
C6_PruneFrame ==
    trial.on =>
       /\ \A e \in trial.dir0 : Skipped(e) => e \in dir
       /\ dir \subseteq trial.dir0
       /\ (maxFiles = 0 \/ Cardinality(Counted(trial.dir0)) < maxFiles)
             => dir = trial.dir0 /\ victims[1] = <<>>
       /\ Cardinality(Counted(trial.dir0)) >= maxFiles
             => Cardinality(trial.dir0 \ dir)
                   <= Cardinality(Counted(trial.dir0)) - maxFiles + 1

\* a run that deleted a file from a directory holding a sub-directory, a file
\* of another prefix and a file without birth time
C6_Witness ==
    /\ trial.on /\ pc[1] = "create" /\ dir # trial.dir0
    /\ logFilenamePrefix # <<>>
    /\ \E e \in dir : e.isDir
    /\ \E e \in dir : ~e.isDir /\ ~HasPrefix(e.name, logFilenamePrefix)

\* C7: with rotation Never, state.nextDate is 0 in every state, shouldRollover
\* returns nil for every instant, no caller gets to AdvanceDate or refreshFile,
\* the file opened by New is the only one ever created and its handle stays
\* the installed one.
C7_NeverKeepsOneFile ==
    rotation = Never =>
       /\ nextDate = 0
       /\ \A t \in Instants(rotation) \cup {0, clock} : shouldRollover(nextDate, t) = 0
       /\ \A p \in Procs : pc[p] \notin Refreshing \cup {"advance"} /\ ~won[p]
       /\ file = 1 /\ handles = <<[ino |-> 1, open |-> TRUE]>>
       /\ nextIno = 2 /\ Cardinality(dir) = 1

\* with Never, after the clock has moved, both callers are in Write, one has
\* written
C7_Witness ==
    /\ rotation = Never /\ clock > Start(rotation)
    /\ \E p, q \in Procs :
          /\ p # q
          /\ pc[p] = "done" /\ under[p].err = "nil" /\ now[p] = clock
          /\ pc[q] = "write"

\* C8, as the spec states it: a Write of an empty byte sequence has not
\* advanced the boundary (so has not pruned, created or swapped) and returns
\* (0, nil).
C8_EmptyWriteNeverRotates ==
    \A p \in Procs :
       (pc[p] = "done" /\ under[p].len = 0) =>
          ~won[p] /\ ret[p] = [n |-> 0, err |-> "nil"]

\* C8: a Write of an empty byte sequence returns (0, nil); a caller whose
\* AdvanceDate has not succeeded changes neither the boundary nor the
\* installed handle nor the directory; and AdvanceDate succeeds only for a
\* caller whose now is at or past the stored boundary.  An empty Write at or
\* past the boundary rotates like any other Write.
C8_EmptyWriteRotatesOnlyPastBoundary ==
    [][\A p \in Procs :
          /\ (pc'[p] # pc[p] /\ ~won'[p]) => UNCHANGED <<nextDate, file, handles, dir>>
          /\ (won'[p] /\ ~won[p]) => nextDate # 0 /\ now[p] >= nextDate
          /\ (pc'[p] = "done" /\ under'[p].len = 0)
                => ret'[p] = [n |-> 0, err |-> "nil"]]_vars

\* an empty Write before the boundary has returned (0, nil)
C8_Witness ==
    \E p \in Procs :
       /\ pc[p] = "done" /\ under[p].len = 0 /\ ret[p] = [n |-> 0, err |-> "nil"]
       /\ ~won[p] /\ nextDate # 0 /\ now[p] < nextDate

\* C9: Write returns exactly what r.file.Write returned, byte count and
\* error; a caller leaves Write only after its file write, whatever failed
\* in refreshFile before; and a failure in refreshFile moves the caller on
\* towards the write step.
C9_OnlyFileWriteErrorReturned ==
    [][\A p \in Procs :
          /\ (pc'[p] = "done" /\ pc[p] # "done") =>
                /\ pc[p] = "write"
                /\ under'[p] \in FileWrite(handles, file, under'[p].len)
                /\ ret'[p] = [n |-> under'[p].n, err |-> under'[p].err]
          /\ (pc'[p] = "idle" /\ pc[p] # "idle") => pc[p] = "done"
          /\ (pc[p] \in Refreshing /\ pc'[p] # pc[p])
                => pc'[p] \in Refreshing \cup {"rlock"}]_vars

\* a caller whose rotation failed to create the file got a short count and
\* the error of the file write
C9_Witness ==
    \E p \in Procs :
       /\ pc[p] = "done" /\ won[p] /\ newFile[p] = 0
       /\ under[p].len > 0 /\ ret[p] = [n |-> 0, err |-> "io"]

\* C10: the step on which createFile fails leaves the installed handle, the
\* handles, the advanced boundary and the directory as they are; the caller
\* then writes to the installed handle; and a caller goes on to AdvanceDate
\* only when its now is at or past the stored boundary.
C10_CreateFailureKeepsHandle ==
    [][\A p \in Procs :
          /\ (pc[p] = "create" /\ pc'[p] = "rlock")
                => UNCHANGED <<file, handles, nextDate, dir>>
          /\ (pc'[p] = "done" /\ pc[p] = "write" /\ won[p] /\ newFile[p] = 0)
                => under'[p].h = file /\ handles[file].open
          /\ (pc'[p] = "advance" /\ pc[p] # "advance")
                => nextDate # 0 /\ now[p] >= nextDate]_vars

\* the winner's createFile failed, it wrote to the handle opened by New, and
\* another Write, before the advanced boundary, goes to its write step
\* without rotating
C10_Witness ==
    \E p, q \in Procs :
       /\ pc[p] = "done" /\ won[p] /\ newFile[p] = 0
       /\ under[p].err = "nil" /\ under[p].h = 1 /\ file = 1 /\ Len(handles) = 1
       /\ nextDate > now[p]
       /\ pc[q] = "rlock" /\ ~won[q] /\ now[q] < nextDate /\ now[q] >= now[p]

\* the period of a rotation kind and the unit its boundaries are rounded to
Period(kind) ==
    CASE kind = Minutely -> Minute
      [] kind = Hourly   -> Hour
      [] OTHER           -> Day

RoundingUnit(kind) == IF kind = Minutely THEN Minute ELSE Hour

\* C11: for every kind but Never the boundary NextDate returns for instant t
\* (here the boundary newState has stored for the clock reading of New)
\* is strictly after t, is a whole minute (Minutely) or a whole hour (Hourly,
\* Daily) of the wall clock, and is at most one period after t.
C11_NextDateAfterAlignedWithinPeriod ==
    (pc[1] = "newFile" /\ rotation # Never) =>
       /\ nextDate > clock
       /\ Wall(timeLocation, nextDate) % RoundingUnit(rotation) = 0
       /\ nextDate - clock <= Period(rotation)

\* New has created the first file, named by joinDate for the reading `clock`
FirstFileCreated == pc[1] = "idle" /\ file = 1 /\ now[1] = 0 /\ nextIno = 2

\* C12, as the spec states it: with Never the name of the file is prefix +
\* suffix for every combination of empty and non-empty prefix and suffix, the
\* same for every instant; with the other kinds it is prefix + formatted
\* date + suffix.
C12_NeverOmitsDate ==
    FirstFileCreated =>
       Names(dir) = {IF rotation = Never
                     THEN logFilenamePrefix \o logFilenameSuffix
                     ELSE logFilenamePrefix \o Format(timeLocation, clock)
                             \o logFilenameSuffix}

\* C12: with Never and a non-empty prefix or suffix the name is prefix +
\* suffix, the same for every instant; with Never and both empty the name is
\* the formatted date, as it is (between prefix and suffix) for the other
\* kinds.
C12_NeverOmitsDateUnlessNoAffix ==
    LET affixed == logFilenamePrefix # <<>> \/ logFilenameSuffix # <<>>
    IN  /\ FirstFileCreated =>
              Names(dir) = {IF rotation = Never /\ affixed
                            THEN logFilenamePrefix \o logFilenameSuffix
                            ELSE logFilenamePrefix \o Format(timeLocation, clock)
                                    \o logFilenameSuffix}
        /\ (rotation = Never /\ affixed) =>
              \A t \in NewInstants :
                 joinDate(rotation, logFilenamePrefix, logFilenameSuffix,
                          timeLocation, t) = logFilenamePrefix \o logFilenameSuffix

\* New with Never and neither prefix nor suffix has named the file by the date
C12_Witness ==
    /\ FirstFileCreated /\ rotation = Never
    /\ logFilenamePrefix = <<>> /\ logFilenameSuffix = <<>>
    /\ Names(dir) = {Format(timeLocation, clock)}

\* C13: state.nextDate never decreases; a successful AdvanceDate replaces
\* the boundary B it read by a value greater than its now, which is at or
\* past B; and a caller whose expected boundary has been replaced keeps
\* holding a value different from state.nextDate, so its compare-and-swap
\* fails.
C13_BoundaryNeverDecreases ==
    [][/\ nextDate' >= nextDate
       /\ \A p \in Procs :
             /\ (won'[p] /\ ~won[p]) =>
                   nextDate' > now[p] /\ now[p] >= nextDate /\ nextDate' > nextDate
             /\ (pc[p] = "advance" /\ pc'[p] = "advance" /\ current[p] # nextDate)
                   => current[p] # nextDate']_vars

C15_AtMostMaxFilesKept ==
    (maxFiles >= 1 /\ \A p \in Procs : pc[p] \notin Refreshing) =>
       Cardinality(Matching(dir)) <= maxFiles

\* C16: the step that takes the exclusive lock closes the installed handle,
\* and the file about to be installed is another file than the one behind
\* that handle, so that after the swap no write lands in the old file; every
\* write step goes to the handle installed at that moment, which is open and
\* is not being swapped, so a caller that lost the race and writes before the
\* swap writes to the file installed before the rotation.
C16_NoWriteToOldFileAfterSwap ==
    [][\A p \in Procs :
          /\ (pc[p] = "lock" /\ pc'[p] = "assign") =>
                /\ ~handles'[file].open
                /\ handles[newFile[p]].ino # handles[file].ino
          /\ (pc[p] = "assign" /\ pc'[p] # "assign") =>
                file' = newFile[p] /\ handles[file'].open /\ ~handles[file].open
          /\ (pc[p] = "write" /\ pc'[p] = "done") =>
                /\ under'[p].h = file /\ handles[file].open
                /\ \A q \in Procs : pc[q] # "assign"]_vars

\* C17: the step of Write that calls shouldRollover changes neither the
\* boundary nor the handles nor the directory nor the lock; for a kind other
\* than Never the stored boundary B is not 0 and the call returns B when
\* now >= B and nil when now < B; a caller whose now is before B goes
\* straight to the write step, and a caller is in AdvanceDate or refreshFile
\* only with a boundary it read that its now is at or past.
C17_ShouldRolloverOnlyReads ==
    [][\A p \in Procs :
          /\ (pc[p] = "should" /\ pc'[p] # "should") =>
                /\ UNCHANGED <<nextDate, file, handles, dir, nextIno, mu>>
                /\ rotation # Never =>
                      /\ nextDate # 0
                      /\ current'[p] = IF now[p] >= nextDate THEN nextDate ELSE 0
                /\ pc'[p] = IF nextDate # 0 /\ now[p] >= nextDate
                            THEN "advance" ELSE "rlock"
          /\ pc'[p] \in Refreshing \cup {"advance"} =>
                current'[p] # 0 /\ now'[p] >= current'[p]]_vars

\* after an earlier rotation, a Write whose now is before the boundary has
\* written its bytes without a rotation step
C17_Witness ==
    \E p \in Procs :
       /\ rotation # Never /\ file > 1
       /\ pc[p] = "done" /\ current[p] = 0 /\ ~won[p] /\ now[p] < nextDate
       /\ under[p].len > 0 /\ under[p].err = "nil" /\ under[p].h = file

\* the hour of the day of the wall-clock reading of instant t
HourOfDay(l, t) == (Wall(l, t) % Day) \div Hour

\* whether some instant reads w on the wall clock of l
WallExists(l, w) == \E u \in {w - l.before, w - l.after} : Wall(l, u) = w

\* for Daily, NextDate(t) reads, on the wall clock, the start of the hour of
\* t one calendar day later
DailyKeepsHour(l, t) ==
    \A nd \in NextDate(Daily, t, l) : Wall(l, nd) = Floor(Wall(l, t), Hour) + Day

\* the same, but for a t whose wall-clock reading does not exist a day later
\* (the clocks skip it): then the hour before or after
DailyKeepsHourIfItExists(l, t) ==
    \A nd \in NextDate(Daily, t, l) :
       IF WallExists(l, Wall(l, t) + Day)
       THEN Wall(l, nd) = Floor(Wall(l, t), Hour) + Day
       ELSE Wall(l, nd) \in {Floor(Wall(l, t), Hour) + Day - Hour,
                             Floor(Wall(l, t), Hour) + Day + Hour}

\* C18, as the spec states it: for Daily, NextDate(t) is t plus one calendar
\* day rounded down to the hour, and so the stored boundary stays at the
\* hour of the day at which the appender was constructed.
C18_DailyBoundaryAtConstructionHour ==
    rotation = Daily =>
       /\ \A t \in NewInstants \cup Instants(rotation) : DailyKeepsHour(timeLocation, t)
       /\ HourOfDay(timeLocation, nextDate)
             = HourOfDay(timeLocation, Start(rotation))

\* C18: for Daily, NextDate(t) is t plus one calendar day rounded down to the
\* hour (not to midnight), at the hour of the day of t unless the clocks skip
\* that reading on the next day; every successful AdvanceDate stores the
\* boundary NextDate(now) of the Write that advanced it, so at the hour of
\* the day of that Write, which need not be the hour at which the appender
\* was constructed.
C18_DailyBoundaryAtHourOfAdvancingWrite ==
    [][rotation = Daily =>
          /\ \A t \in NewInstants \cup Instants(rotation) :
                DailyKeepsHourIfItExists(timeLocation, t)
          /\ \A p \in Procs :
                (won'[p] /\ ~won[p]) =>
                   /\ nextDate' \in NextDate(rotation, now[p], timeLocation)
                   /\ Wall(timeLocation, nextDate') % Hour = 0
                   /\ WallExists(timeLocation, Wall(timeLocation, now[p]) + Day)
                         => HourOfDay(timeLocation, nextDate')
                               = HourOfDay(timeLocation, now[p])]_vars

\* a Daily appender whose boundary, after a rotation, is at another hour of
\* the day than the hour of construction
C18_Witness ==
    /\ rotation = Daily
    /\ \E p \in Procs :
          /\ won[p] /\ nextDate \in NextDate(rotation, now[p], timeLocation)
          /\ HourOfDay(timeLocation, nextDate) = HourOfDay(timeLocation, now[p])
          /\ HourOfDay(timeLocation, nextDate)
                # HourOfDay(timeLocation, Start(rotation))

\* the positions of a caller after refreshFile and before Write returns
AfterRefresh == {"rlock", "write", "done"}

\* C19: when two callers have advanced two successive boundaries B1 < B2 and
\* both have installed the file they created, the installed handle is the
\* one of the caller that advanced B2.
C19_InstalledHandleOfLaterBoundary ==
    \A p, q \in Procs :
       (/\ won[p] /\ won[q] /\ current[p] < current[q]
        /\ pc[p] \in AfterRefresh /\ pc[q] \in AfterRefresh
        /\ newFile[p] # 0 /\ newFile[q] # 0)
          => file = newFile[q]

\* a caller asks for a lock only while it holds none
HoldsNoLockWhenAsking ==
    \A p \in Procs :
       /\ pc[p] \in {"lock", "rlock"} => mu.writer # p /\ p \notin mu.readers
       /\ mu.writer = p <=> pc[p] = "assign"
       /\ p \in mu.readers <=> pc[p] \in {"write", "done"}

\* C20: under fair scheduling every caller inside Write, whether its
\* AdvanceDate succeeded or not, completes its write step and then returns,
\* and no caller asks for the exclusive or the shared lock while it holds
\* one.
C20_EveryWriteReturns ==
    /\ []HoldsNoLockWhenAsking
    /\ \A p \in Procs :
          /\ (pc[p] # "idle") ~> (pc[p] = "done")
          /\ (pc[p] = "done") ~> (pc[p] = "idle")

\* a caller that swapped the handle holds the shared lock after its write
\* while another caller, its file created, waits for the exclusive lock
C20_Witness ==
    \E p, q \in Procs :
       /\ pc[p] = "done" /\ won[p] /\ newFile[p] # 0 /\ file = newFile[p]
       /\ p \in mu.readers
       /\ pc[q] = "lock" /\ won[q]

====
